---- MODULE Spec2Model ----
(***************************************************************************)
(* Verification model of zed-wolfram:                                      *)
(*   - the nested-comment external scanner  (grammars/wolfram/src/scanner.c)*)
(*   - the highlight generator              (tools/generate-highlights.ts) *)
(* Strings are sequences of one-character strings.                         *)
(***************************************************************************)
EXTENDS Integers, Sequences, FiniteSets, TLC

VARIABLES
    \* ---- scanner.c : one invocation of ..._external_scanner_scan ----
    input,          \* the characters the lexer will serve
    pos,            \* number of characters consumed (index of lookahead)
    tokStart,       \* start of the token (moved by advance(skip = true))
    depth,          \* scan_comment's local 'depth' (0 before it is entered)
    result_symbol,  \* lexer->result_symbol : "none" until assigned
    markEnd,        \* position recorded by lexer->mark_end, -1 until called
    ret,            \* return value of scan: "none" | "true" | "false"
    pc,             \* position in scan: "ws" | "comment" | "done" | "idle"
    \* ---- generate-highlights.ts : one call of expandTrie ----
    src,            \* the argument: its text s, the names n it stands for
    stack,          \* pending calls of doExpand, the next one first
    results,        \* the results array
    last,           \* the latest activation of doExpand
    tpc,            \* "expand" | "done" | "idle"
    \* ---- generate-highlights.ts : one call of extractSymbolNames ----
    xsrc,           \* the argument matchPattern (text) and how it was built
    pattern,        \* the local 'pattern'
    xnames,         \* the local 'names', then the value returned
    xpc,            \* "prefix" | "lookahead" | "unwrap" | "expand" | "filter" | "done" | "idle"
    \* ---- generate-highlights.ts : one call of generateMatchBlocks ----
    bnames,         \* the argument names
    blimit,         \* the argument maxRegexLen
    brest,          \* the names of 'sorted' the loop has still to visit
    bst,            \* the locals batch, currentLen, lines
    blocks,         \* the blocks returned
    bpc,            \* "sort" | "loop" | "done" | "idle"
    \* ---- generate-highlights.ts : one run of main ----
    doc,            \* the grammar document at TM_GRAMMAR_PATH
    hfile,          \* the file at HIGHLIGHTS_OUT
    bfile,          \* the file at BRACKETS_OUT
    symbolPatterns, \* the local symbolPatterns
    symbolsByScope, \* the local symbolsByScope
    mpc             \* "read" | "patterns" | "loop" | "brackets" | "done" | "failed" | "idle"

scanVars == <<input, pos, tokStart, depth, result_symbol, markEnd, ret, pc>>

trieVars == <<src, stack, results, last, tpc>>

extractVars == <<xsrc, pattern, xnames, xpc>>

blockVars == <<bnames, blimit, brest, bst, blocks, bpc>>

mainVars == <<doc, hfile, bfile, symbolPatterns, symbolsByScope, mpc>>

vars == <<scanVars, trieVars, extractVars, blockVars, mainVars>>

\* What each component leaves alone
nonScanVars == <<trieVars, extractVars, blockVars, mainVars>>
nonTrieVars == <<scanVars, extractVars, blockVars, mainVars>>
nonExtractVars == <<scanVars, trieVars, blockVars, mainVars>>
nonBlockVars == <<scanVars, trieVars, extractVars, mainVars>>
nonMainVars == <<scanVars, trieVars, extractVars, blockVars>>

\* A component that is not running
ScanIdle ==
    /\ input = <<>> /\ pos = 0 /\ tokStart = 0 /\ depth = 0
    /\ result_symbol = "none" /\ markEnd = -1 /\ ret = "none" /\ pc = "idle"

TrieIdle ==
    /\ src = [s |-> <<>>, n |-> {}, bar |-> FALSE, ok |-> FALSE]
    /\ stack = <<>> /\ results = <<>>
    /\ last = [kind |-> "none"] /\ tpc = "idle"

ExtractIdle ==
    /\ xsrc = [form |-> "none", body |-> <<>>, text |-> <<>>]
    /\ pattern = <<>> /\ xnames = <<>> /\ xpc = "idle"

BlocksIdle ==
    /\ bnames = <<>> /\ blimit = 0 /\ brest = <<>>
    /\ bst = [batch |-> <<>>, currentLen |-> 0, lines |-> <<>>]
    /\ blocks = <<>> /\ bpc = "idle"

MainIdle ==
    /\ doc = [file |-> "none"]
    /\ hfile = [state |-> "absent", sections |-> <<>>]
    /\ bfile = [state |-> "absent", sections |-> <<>>]
    /\ symbolPatterns = [tag |-> "undefined", items |-> <<>>]
    /\ symbolsByScope = <<>> /\ mpc = "idle"


(***************************************************************************)
(* Bounds                                                                  *)
(***************************************************************************)
MaxPieces == 5
MaxOps == 3
MaxExtractOps == 1
MaxNames == 3
MaxLimit == 6
MaxEntries == 2

(***************************************************************************)
(* Generic helpers on sequences                                            *)
(***************************************************************************)
Range(s) == {s[i] : i \in 1..Len(s)}

RECURSIVE Flatten(_)
Flatten(ss) == IF ss = <<>> THEN <<>> ELSE Head(ss) \o Flatten(Tail(ss))

SeqsUpTo(S, n) == UNION {[1..k -> S] : k \in 0..n}

(***************************************************************************)
(* scanner.c                                                               *)
(***************************************************************************)
\* iswspace on the characters of the model's alphabet
WhiteSpace == {" "}

\* Inputs: every concatenation of at most MaxPieces pieces
Pieces == {<<"(", "*">>, <<"*", ")">>, <<"(">>, <<")">>, <<"*">>, <<" ">>, <<"a">>}
ScanInputs == {Flatten(ps) : ps \in SeqsUpTo(Pieces, MaxPieces)}

\* lexer->lookahead with p characters consumed; 0 ("EOF") at end of input
LookaheadAt(p) == IF p < Len(input) THEN input[p + 1] ELSE "EOF"
Lookahead == LookaheadAt(pos)

\* lexer->eof
Eof == pos >= Len(input)

\* lexer->advance: consumes one character; no effect at end of input
AdvanceFrom(p) == IF p < Len(input) THEN p + 1 ELSE p

InitScan ==
    /\ TrieIdle /\ ExtractIdle /\ BlocksIdle /\ MainIdle
    /\ input \in ScanInputs
    /\ pos = 0 /\ tokStart = 0 /\ depth = 0
    /\ result_symbol = "none" /\ markEnd = -1 /\ ret = "none"
    /\ pc = "ws"

\* while (iswspace(lexer->lookahead)) lexer->advance(lexer, true);
SkipWhitespace ==
    /\ pc = "ws"
    /\ Lookahead \in WhiteSpace
    /\ pos' = AdvanceFrom(pos)
    /\ tokStart' = pos'
    /\ UNCHANGED <<input, depth, result_symbol, markEnd, ret, pc>>
    /\ UNCHANGED nonScanVars

\* if (lookahead == '(') { advance; if (lookahead == '*') { advance;
\*   return scan_comment(lexer); } }  return false;
ScanOpen ==
    /\ pc = "ws"
    /\ Lookahead \notin WhiteSpace
    /\ IF Lookahead = "("
         THEN LET p1 == AdvanceFrom(pos) IN
              IF LookaheadAt(p1) = "*"
                THEN /\ pos' = AdvanceFrom(p1)
                     /\ depth' = 1
                     /\ pc' = "comment"
                     /\ UNCHANGED ret
                ELSE /\ pos' = p1
                     /\ ret' = "false"
                     /\ pc' = "done"
                     /\ UNCHANGED depth
         ELSE /\ ret' = "false"
              /\ pc' = "done"
              /\ UNCHANGED <<pos, depth>>
    /\ UNCHANGED <<input, tokStart, result_symbol, markEnd>>
    /\ UNCHANGED nonScanVars

\* Variant of CommentStar: the token kind is recorded on every `*)`
CommentStarEarlySymbol ==
    /\ pc = "comment" /\ ~Eof /\ Lookahead = "*"
    /\ LET p1 == AdvanceFrom(pos) IN
       IF LookaheadAt(p1) = ")"
         THEN /\ result_symbol' = "COMMENT"
              /\ IF depth - 1 = 0
                   THEN /\ depth' = 0
                        /\ pos' = AdvanceFrom(p1)
                        /\ markEnd' = pos'
                        /\ ret' = "true"
                        /\ pc' = "done"
                   ELSE /\ depth' = depth - 1
                        /\ pos' = p1
                        /\ UNCHANGED <<markEnd, ret, pc>>
         ELSE /\ pos' = p1
              /\ UNCHANGED <<depth, result_symbol, markEnd, ret, pc>>
    /\ UNCHANGED <<input, tokStart>>
    /\ UNCHANGED nonScanVars

\* scan_comment, case '*'
CommentStar ==
    /\ pc = "comment" /\ ~Eof /\ Lookahead = "*"
    /\ LET p1 == AdvanceFrom(pos) IN
       IF LookaheadAt(p1) = ")"
         THEN IF depth - 1 = 0
                THEN /\ depth' = 0
                     /\ result_symbol' = "COMMENT"
                     /\ pos' = AdvanceFrom(p1)
                     /\ markEnd' = pos'
                     /\ ret' = "true"
                     /\ pc' = "done"
                ELSE /\ depth' = depth - 1
                     /\ pos' = p1
                     /\ UNCHANGED <<result_symbol, markEnd, ret, pc>>
         ELSE /\ pos' = p1
              /\ UNCHANGED <<depth, result_symbol, markEnd, ret, pc>>
    /\ UNCHANGED <<input, tokStart>>
    /\ UNCHANGED nonScanVars

\* scan_comment, case '('
CommentParen ==
    /\ pc = "comment" /\ ~Eof /\ Lookahead = "("
    /\ pos' = AdvanceFrom(pos)
    /\ depth' = IF LookaheadAt(pos') = "*" THEN depth + 1 ELSE depth
    /\ UNCHANGED <<input, tokStart, result_symbol, markEnd, ret, pc>>
    /\ UNCHANGED nonScanVars

\* Variant of CommentOther: a ')' met in the default case closes a level
\* without being consumed
CommentOtherStuck ==
    /\ pc = "comment" /\ ~Eof /\ Lookahead \notin {"*", "("}
    /\ pos' = IF Lookahead = ")" THEN pos ELSE AdvanceFrom(pos)
    /\ depth' = IF Lookahead = ")" THEN depth - 1 ELSE depth
    /\ UNCHANGED <<input, tokStart, result_symbol, markEnd, ret, pc>>
    /\ UNCHANGED nonScanVars

\* scan_comment, default case
CommentOther ==
    /\ pc = "comment" /\ ~Eof /\ Lookahead \notin {"*", "("}
    /\ pos' = AdvanceFrom(pos)
    /\ UNCHANGED <<input, tokStart, depth, result_symbol, markEnd, ret, pc>>
    /\ UNCHANGED nonScanVars

\* scan_comment: the while condition fails, return false
CommentEof ==
    /\ pc = "comment" /\ Eof
    /\ ret' = "false"
    /\ pc' = "done"
    /\ UNCHANGED <<input, pos, tokStart, depth, result_symbol, markEnd>>
    /\ UNCHANGED nonScanVars

NextScan ==
    \/ SkipWhitespace
    \/ ScanOpen
    \/ CommentStar
    \/ CommentParen
    \/ CommentOther
    \/ CommentEof

SpecScan == InitScan /\ [][NextScan]_vars

\* One invocation runs to its return without being suspended
SpecScanFair == SpecScan /\ WF_vars(NextScan)

(***************************************************************************)
(* Scanner claims                                                          *)
(***************************************************************************)
\* Number of leading whitespace characters of s
RECURSIVE WsLen(_)
WsLen(s) == IF s # <<>> /\ Head(s) \in WhiteSpace THEN 1 + WsLen(Tail(s)) ELSE 0

\* s holds the two characters a, b at 0-based position i
TwoAt(s, i, a, b) == i + 2 <= Len(s) /\ s[i + 1] = a /\ s[i + 2] = b

\* Reference reading of nesting: delimiters are the two-character tokens
\* `(*` and `*)`, read left to right, a character belonging to one token only.
\* The result is the position one past the `)` that closes level d, -1 if none.
RECURSIVE RefClose(_, _, _)
RefClose(s, i, d) ==
    IF i >= Len(s) THEN -1
    ELSE IF TwoAt(s, i, "(", "*") THEN RefClose(s, i + 2, d + 1)
    ELSE IF TwoAt(s, i, "*", ")")
           THEN IF d = 1 THEN i + 2 ELSE RefClose(s, i + 2, d - 1)
    ELSE RefClose(s, i + 1, d)

OpensComment(s) == TwoAt(s, WsLen(s), "(", "*")

RefEnd(s) == IF OpensComment(s) THEN RefClose(s, WsLen(s) + 2, 1) ELSE -1

\* C1: an input that, after leading whitespace, opens a comment which is closed
\* by its matching `*)` (interior pairs properly nested) yields a COMMENT token
\* that starts at the opening `(` and ends one past the `)` of the matching `*)`.
C1_CommentSpan ==
    (pc = "done" /\ RefEnd(input) # -1) =>
        /\ ret = "true"
        /\ result_symbol = "COMMENT"
        /\ tokStart = WsLen(input)
        /\ markEnd = RefEnd(input)

\* No `*)` anywhere after the opener
NoCloser(s) ==
    /\ OpensComment(s)
    /\ \A i \in (WsLen(s) + 2)..Len(s) : ~TwoAt(s, i, "*", ")")

C10_SinglePass ==
    /\ [](/\ pos <= Len(input)
          /\ (pc = "comment" => depth >= 1)
          /\ (pc = "done" =>
                \/ /\ ret = "true" /\ depth = 0 /\ markEnd = pos
                   /\ TwoAt(input, pos - 2, "*", ")")
                \/ /\ ret = "false" /\ markEnd = -1
                   /\ (depth > 0 => pos = Len(input))))
    /\ [][/\ pos' >= pos
          /\ (pc \in {"ws", "comment"} /\ pc' = pc) => pos' > pos]_vars
    /\ <>(pc = "done")

\* A comment nested two levels deep was scanned to its end after whitespace
C10_Witness ==
    /\ pc = "done" /\ ret = "true" /\ tokStart > 0 /\ pos = Len(input)
    /\ RefEnd(input) = pos
    /\ \E i \in (tokStart + 2)..Len(input) : TwoAt(input, i, "(", "*")

(***************************************************************************)
(* generate-highlights.ts : string primitives                              *)
(***************************************************************************)
\* String.prototype.substring(a, b), 0-based, end exclusive
substring(s, a, b) == SubSeq(s, a + 1, b)

\* String.prototype.startsWith / endsWith
startsWith(s, p) == Len(s) >= Len(p) /\ SubSeq(s, 1, Len(p)) = p
endsWith(s, p) == Len(s) >= Len(p) /\ SubSeq(s, Len(s) - Len(p) + 1, Len(s)) = p

(***************************************************************************)
(* generate-highlights.ts : splitTopLevel, expandTrie, doExpand            *)
(***************************************************************************)
\* splitTopLevel: the for loop, then the final push
RECURSIVE splitLoop(_, _, _, _, _)
splitLoop(s, i, d, start, parts) ==
    IF i >= Len(s) THEN Append(parts, substring(s, start, Len(s)))
    ELSE IF s[i + 1] = "(" THEN splitLoop(s, i + 1, d + 1, start, parts)
    ELSE IF s[i + 1] = ")" THEN splitLoop(s, i + 1, d - 1, start, parts)
    ELSE IF s[i + 1] = "|" /\ d = 0
           THEN splitLoop(s, i + 1, d, i + 1, Append(parts, substring(s, start, i)))
    ELSE splitLoop(s, i + 1, d, start, parts)

splitTopLevel(s) == splitLoop(s, 0, 0, 0, <<>>)

\* doExpand: the first loop. It ends at a top-level `|` (bar = TRUE), or runs
\* to the end of s leaving parenStart as assigned on the way.
RECURSIVE findParenStart(_, _, _, _)
findParenStart(s, i, d, parenStart) ==
    IF i >= Len(s) THEN [bar |-> FALSE, parenStart |-> parenStart]
    ELSE IF s[i + 1] = "("
           THEN findParenStart(s, i + 1, d + 1, IF d = 0 THEN i ELSE parenStart)
    ELSE IF s[i + 1] = ")" THEN findParenStart(s, i + 1, d - 1, parenStart)
    ELSE IF s[i + 1] = "|" /\ d = 0 THEN [bar |-> TRUE, parenStart |-> parenStart]
    ELSE findParenStart(s, i + 1, d, parenStart)

\* doExpand: the second loop, the matching close parenthesis or -1
RECURSIVE findParenEnd(_, _, _)
findParenEnd(s, i, d) ==
    IF i >= Len(s) THEN -1
    ELSE IF s[i + 1] = "(" THEN findParenEnd(s, i + 1, d + 1)
    ELSE IF s[i + 1] = ")"
           THEN IF d - 1 = 0 THEN i ELSE findParenEnd(s, i + 1, d - 1)
    ELSE findParenEnd(s, i + 1, d)

\* Variant of reattach: the text after the group is dropped
reattachNoSuffix(prefix, alt, suffix) == prefix \o alt

\* doExpand(prefix + alt + suffix, results)
reattach(prefix, alt, suffix) == prefix \o alt \o suffix

\* One activation of doExpand on s: what it pushes to results (emit) and the
\* strings it recurses on, in order (calls).
doExpandStep(s) ==
    LET f == findParenStart(s, 0, 0, -1) IN
    IF f.bar
      THEN [kind |-> "split", parenStart |-> f.parenStart, prefix |-> <<>>,
            emit |-> <<>>, calls |-> splitTopLevel(s)]
    ELSE IF f.parenStart = -1
      THEN [kind |-> "literal", parenStart |-> -1, prefix |-> <<>>,
            emit |-> IF Len(s) > 0 THEN <<s>> ELSE <<>>, calls |-> <<>>]
    ELSE
      LET parenStart == f.parenStart
          prefix == substring(s, 0, parenStart)
          parenEnd == findParenEnd(s, parenStart, 0)
      IN  IF parenEnd = -1
            THEN [kind |-> "unmatched", parenStart |-> parenStart, prefix |-> prefix,
                  emit |-> IF Len(prefix) > 0 THEN <<prefix>> ELSE <<>>,
                  calls |-> <<>>]
            ELSE
              LET inner0 == substring(s, parenStart + 1, parenEnd)
                  suffix == substring(s, parenEnd + 1, Len(s))
                  inner == IF startsWith(inner0, <<"?", ":">>)
                             THEN substring(inner0, 2, Len(inner0)) ELSE inner0
                  alternatives == splitTopLevel(inner)
              IN  [kind |-> "group", parenStart |-> parenStart, prefix |-> prefix,
                   emit |-> <<>>,
                   calls |-> [k \in 1..Len(alternatives) |->
                                 reattach(prefix, alternatives[k], suffix)]]

\* doExpand as a function of s: the names pushed, in push order
RECURSIVE doExpand(_)
RECURSIVE doExpandAll(_)
doExpandAll(ss) == IF ss = <<>> THEN <<>> ELSE doExpand(Head(ss)) \o doExpandAll(Tail(ss))
doExpand(s) == LET st == doExpandStep(s) IN st.emit \o doExpandAll(st.calls)

expandTrie(s) == doExpand(s)

(***************************************************************************)
(* Trie-compressed expressions: literals, (?:...) groups, alternation,     *)
(* concatenation; each with the set of names it denotes                    *)
(***************************************************************************)
Lits == {<<"A">>, <<"b">>}

Lit(w) == [s |-> w, n |-> {w}, bar |-> FALSE, ok |-> TRUE]
Grp(a, b) == [s |-> <<"(", "?", ":">> \o a.s \o <<"|">> \o b.s \o <<")">>,
              n |-> a.n \cup b.n, bar |-> FALSE, ok |-> TRUE]
Alt(a, b) == [s |-> a.s \o <<"|">> \o b.s, n |-> a.n \cup b.n, bar |-> TRUE, ok |-> TRUE]
Cat(a, b) == [s |-> a.s \o b.s, n |-> {x \o y : x \in a.n, y \in b.n},
              bar |-> FALSE, ok |-> TRUE]

Combine(a, b) ==
    {Grp(a, b), Alt(a, b)} \cup (IF ~a.bar /\ ~b.bar THEN {Cat(a, b)} ELSE {})

\* Expressions with exactly k binary constructors
RECURSIVE ExprsOf(_)
ExprsOf(k) ==
    IF k = 0 THEN {Lit(w) : w \in Lits}
    ELSE UNION {UNION {Combine(a, b) : a \in ExprsOf(i), b \in ExprsOf(k - 1 - i)} :
                  i \in 0..(k - 1)}

Exprs(k) == UNION {ExprsOf(j) : j \in 0..k}

\* The two expressions documented at expandTrie, with the names they stand for
TrieExamples ==
    {[s |-> <<"A", "(", "?", ":", "b", "s", "|", "d", "d", "|", "r", "g", ")">>,
      n |-> {<<"A", "b", "s">>,
           <<"A", "d", "d">>,
           <<"A", "r", "g">>},
      bar |-> FALSE, ok |-> TRUE],
     [s |-> <<"X", "(", "?", ":", "M", "L", "(", "?", ":", "E", "l", "e", "m", "e", "n", "t", "|", "O", "b", "j", "e", "c", "t", ")", "|", "Y", "Z", "C", "o", "l", "o", "r", "|", "n", "o", "r", "|", "o", "r", ")">>,
      n |-> {<<"X", "M", "L", "E", "l", "e", "m", "e", "n", "t">>,
           <<"X", "M", "L", "O", "b", "j", "e", "c", "t">>,
           <<"X", "Y", "Z", "C", "o", "l", "o", "r">>,
           <<"X", "n", "o", "r">>,
           <<"X", "o", "r">>},
      bar |-> FALSE, ok |-> TRUE]}

\* Expressions cut short, which leaves a group open
Truncated(k) ==
    {[s |-> SubSeq(e.s, 1, Len(e.s) - 1), n |-> {}, bar |-> e.bar, ok |-> FALSE] :
        e \in {x \in Exprs(k) : x.s[Len(x.s)] = ")"}}

TrieInputs == Exprs(MaxOps) \cup TrieExamples \cup Truncated(MaxOps)

(***************************************************************************)
(* expandTrie run step by step: the recursion of doExpand as a stack of    *)
(* pending calls, first call on top                                        *)
(***************************************************************************)
InitTrie ==
    /\ ScanIdle /\ ExtractIdle /\ BlocksIdle /\ MainIdle
    /\ src \in TrieInputs
    /\ stack = <<src.s>>
    /\ results = <<>>
    /\ last = [kind |-> "none"]
    /\ tpc = "expand"

\* The effect of the activation st of doExpand on the call at the top
Activate(st) ==
    /\ results' = results \o st.emit
    /\ stack' = st.calls \o Tail(stack)
    /\ last' = [kind |-> st.kind, s |-> Head(stack), parenStart |-> st.parenStart,
                prefix |-> st.prefix, emit |-> st.emit]
    /\ UNCHANGED <<src, tpc>>
    /\ UNCHANGED nonTrieVars

\* lines 95-102: a top-level `|`, one recursive call per piece
ExpandSplit ==
    /\ tpc = "expand" /\ stack # <<>>
    /\ doExpandStep(Head(stack)).kind = "split"
    /\ Activate(doExpandStep(Head(stack)))

\* lines 105-109: no parenthesis, the string is a name
ExpandLiteral ==
    /\ tpc = "expand" /\ stack # <<>>
    /\ doExpandStep(Head(stack)).kind = "literal"
    /\ Activate(doExpandStep(Head(stack)))

\* lines 127-131: no matching close parenthesis
ExpandUnmatched ==
    /\ tpc = "expand" /\ stack # <<>>
    /\ doExpandStep(Head(stack)).kind = "unmatched"
    /\ Activate(doExpandStep(Head(stack)))

\* lines 133-145: a group, one recursive call per alternative
ExpandGroup ==
    /\ tpc = "expand" /\ stack # <<>>
    /\ doExpandStep(Head(stack)).kind = "group"
    /\ Activate(doExpandStep(Head(stack)))

\* expandTrie returns results
ExpandReturn ==
    /\ tpc = "expand" /\ stack = <<>>
    /\ tpc' = "done"
    /\ UNCHANGED <<src, stack, results, last>>
    /\ UNCHANGED nonTrieVars

NextTrie ==
    \/ ExpandSplit
    \/ ExpandLiteral
    \/ ExpandUnmatched
    \/ ExpandGroup
    \/ ExpandReturn

SpecTrie == InitTrie /\ [][NextTrie]_vars

(***************************************************************************)
(* Trie claims                                                             *)
(***************************************************************************)
\* C3: expanding a trie-compressed expression returns exactly the names the
\* expression was built from, as a set: none added, none lost.
C3_ExpandInverse ==
    (tpc = "done" /\ src.ok) => Range(results) = src.n

\* An expression with a nested group and two groups in sequence was expanded
C3_Witness ==
    /\ tpc = "done" /\ src.ok /\ Cardinality(src.n) >= 4
    /\ \E i \in 1..(Len(src.s) - 1) : src.s[i] = ")" /\ src.s[i + 1] = "("
    /\ Range(results) = src.n

\* Number of c in the first i characters of s
Count(s, i, c) == Cardinality({j \in 1..i : s[j] = c})
\* Position (0-based) of the first `(` of s at nesting depth 0, -1 if none
FirstTopParen(s) ==
    LET tops == {i \in 0..(Len(s) - 1) :
                    s[i + 1] = "(" /\ Count(s, i, "(") = Count(s, i, ")")}
    IN  IF tops = {} THEN -1 ELSE CHOOSE i \in tops : \A j \in tops : i <= j

\* C9: in an activation of doExpand on a string with no top-level `|`, the
\* group expanded is the first top-level `(`: the prefix is the text before
\* it and holds no parenthesis; with no matching close for that parenthesis
\* the activation emits just this prefix (when non-empty).
C9_FirstGroup ==
    last.kind \in {"group", "unmatched"} =>
        /\ last.parenStart = FirstTopParen(last.s)
        /\ last.prefix = substring(last.s, 0, FirstTopParen(last.s))
        /\ \A i \in 1..Len(last.prefix) : last.prefix[i] \notin {"(", ")"}
        /\ (findParenEnd(last.s, FirstTopParen(last.s), 0) = -1) <=>
              (last.kind = "unmatched")
        /\ last.kind = "unmatched" =>
              last.emit = (IF last.prefix = <<>> THEN <<>> ELSE <<last.prefix>>)

(***************************************************************************)
(* generate-highlights.ts : extractSymbolNames                             *)
(***************************************************************************)
\* The character U+0060 (grave accent), which a string literal cannot hold
Backtick == "backtick"

SystemText == <<"S", "y", "s", "t", "e", "m">>

\* matchPattern.replace(/^System[`\\`]/, ""): the class holds the two
\* characters ` and \
stripPrefix(m) ==
    IF startsWith(m, SystemText) /\ Len(m) > Len(SystemText)
         /\ m[Len(SystemText) + 1] \in {Backtick, "\\"}
      THEN substring(m, Len(SystemText) + 1, Len(m))
      ELSE m

\* pattern.replace(/\(\?!\[.*\]\)$/, ""): the leftmost `(?![` that a `])`
\* ending the string follows
stripLookahead(p) ==
    LET starts == {i \in 0..(Len(p) - 6) :
                      /\ substring(p, i, i + 4) = <<"(", "?", "!", "[">>
                      /\ endsWith(p, <<"]", ")">>)}
    IN  IF starts = {} THEN p
        ELSE substring(p, 0, CHOOSE i \in starts : \A j \in starts : i <= j)

\* lines 164-175: the loop over inner, balanced and the final depth
RECURSIVE balanceLoop(_, _, _)
balanceLoop(inner, i, d) ==
    IF i >= Len(inner) THEN [balanced |-> TRUE, depth |-> d]
    ELSE IF inner[i + 1] = "(" THEN balanceLoop(inner, i + 1, d + 1)
    ELSE IF inner[i + 1] = ")"
           THEN IF d - 1 < 0 THEN [balanced |-> FALSE, depth |-> d - 1]
                ELSE balanceLoop(inner, i + 1, d - 1)
    ELSE balanceLoop(inner, i + 1, d)

\* lines 161-179: remove the outer non-capturing group
unwrapOuter(p) ==
    IF startsWith(p, <<"(", "?", ":">>) /\ endsWith(p, <<")">>)
      THEN LET inner == substring(p, 3, Len(p) - 1)
               b == balanceLoop(inner, 0, 0)
           IN  IF b.balanced /\ b.depth = 0 THEN inner ELSE p
      ELSE p

Letter == {"A", "B", "C", "D", "E", "F", "G", "H", "I", "J", "K", "L", "M", "N", "O", "P", "Q", "R", "S", "T", "U", "V", "W", "X", "Y", "Z", "a", "b", "c", "d", "e", "f", "g", "h", "i", "j", "k", "l", "m", "n", "o", "p", "q", "r", "s", "t", "u", "v", "w", "x", "y", "z"}
Digit == {"0", "1", "2", "3", "4", "5", "6", "7", "8", "9"}

\* /^[$A-Za-z][$A-Za-z0-9]*$/.test(n)
validName(n) ==
    /\ Len(n) >= 1
    /\ n[1] \in Letter \cup {"$"}
    /\ \A i \in 2..Len(n) : n[i] \in Letter \cup Digit \cup {"$"}

\* Array.prototype.filter
RECURSIVE filterValid(_)
filterValid(ns) ==
    IF ns = <<>> THEN <<>>
    ELSE (IF validName(Head(ns)) THEN <<Head(ns)>> ELSE <<>>) \o filterValid(Tail(ns))

extractSymbolNames(matchPattern) ==
    filterValid(expandTrie(unwrapOuter(stripLookahead(stripPrefix(matchPattern)))))

\* Match expressions: an optional namespace prefix, the body (optionally
\* wrapped in one outer group), an optional negative lookahead
PrefixText(form) ==
    CASE form = "none" -> <<>>
      [] form = "plain" -> SystemText \o <<Backtick>>
      [] form = "escaped" -> SystemText \o <<"\\", Backtick>>

LookaheadText == <<"(", "?", "!", "[", Backtick, "$", "[", ":", "a", "l", "n", "u", "m", ":", "]", "]", ")">>

MatchBodies ==
    {(IF wrap THEN <<"(", "?", ":">> \o e.s \o <<")">> ELSE e.s)
        \o (IF guard THEN LookaheadText ELSE <<>>) :
        e \in Exprs(MaxExtractOps), wrap \in BOOLEAN, guard \in BOOLEAN}

MatchInputs ==
    {[form |-> f, body |-> b, text |-> PrefixText(f) \o b] :
        f \in {"none", "plain", "escaped"}, b \in MatchBodies}

InitExtract ==
    /\ ScanIdle /\ TrieIdle /\ BlocksIdle /\ MainIdle
    /\ xsrc \in MatchInputs
    /\ pattern = xsrc.text
    /\ xnames = <<>>
    /\ xpc = "prefix"

\* line 155
StripPrefix ==
    /\ xpc = "prefix"
    /\ pattern' = stripPrefix(pattern)
    /\ xpc' = "lookahead"
    /\ UNCHANGED <<xsrc, xnames>>
    /\ UNCHANGED nonExtractVars

\* line 158
StripLookahead ==
    /\ xpc = "lookahead"
    /\ pattern' = stripLookahead(pattern)
    /\ xpc' = "unwrap"
    /\ UNCHANGED <<xsrc, xnames>>
    /\ UNCHANGED nonExtractVars

\* lines 161-179
UnwrapOuter ==
    /\ xpc = "unwrap"
    /\ pattern' = unwrapOuter(pattern)
    /\ xpc' = "expand"
    /\ UNCHANGED <<xsrc, xnames>>
    /\ UNCHANGED nonExtractVars

\* line 181
ExpandNames ==
    /\ xpc = "expand"
    /\ xnames' = expandTrie(pattern)
    /\ xpc' = "filter"
    /\ UNCHANGED <<xsrc, pattern>>
    /\ UNCHANGED nonExtractVars

\* line 184
FilterNames ==
    /\ xpc = "filter"
    /\ xnames' = filterValid(xnames)
    /\ xpc' = "done"
    /\ UNCHANGED <<xsrc, pattern>>
    /\ UNCHANGED nonExtractVars

NextExtract ==
    \/ StripPrefix
    \/ StripLookahead
    \/ UnwrapOuter
    \/ ExpandNames
    \/ FilterNames

SpecExtract == InitExtract /\ [][NextExtract]_vars

(***************************************************************************)
(* extractSymbolNames claims                                               *)
(***************************************************************************)
\* C8: the prefix System with its backtick is stripped both when the backtick
\* is written plain and when it is written escaped: either way the names
\* extracted are those of the expression without the prefix.
C8_PrefixStripped ==
    (xpc = "done" /\ xsrc.form \in {"plain", "escaped"}) =>
        Range(xnames) = Range(extractSymbolNames(xsrc.body))

\* The plain form, for which the names of the expression are recovered
C8_PlainWitness ==
    /\ xpc = "done" /\ xsrc.form = "plain"
    /\ Cardinality(Range(xnames)) >= 2
    /\ Range(xnames) = Range(extractSymbolNames(xsrc.body))

(***************************************************************************)
(* generate-highlights.ts : generateMatchBlocks, formatMatchBlock          *)
(***************************************************************************)
\* UTF-16 code unit of the characters names are made of
UpperCase == <<"A", "B", "C", "D", "E", "F", "G", "H", "I", "J", "K", "L", "M", "N", "O", "P", "Q", "R", "S", "T", "U", "V", "W", "X", "Y", "Z">>
LowerCase == <<"a", "b", "c", "d", "e", "f", "g", "h", "i", "j", "k", "l", "m", "n", "o", "p", "q", "r", "s", "t", "u", "v", "w", "x", "y", "z">>
Digits == <<"0", "1", "2", "3", "4", "5", "6", "7", "8", "9">>
IndexIn(seq, c) == CHOOSE k \in 1..Len(seq) : seq[k] = c

codeUnit(c) ==
    CASE c = "$" -> 36
      [] c \in Range(Digits) -> 47 + IndexIn(Digits, c)
      [] c \in Range(UpperCase) -> 64 + IndexIn(UpperCase, c)
      [] c \in Range(LowerCase) -> 96 + IndexIn(LowerCase, c)

\* The order Array.prototype.sort() uses with no comparator: by code units
RECURSIVE lexLess(_, _)
lexLess(a, b) ==
    IF a = <<>> THEN b # <<>>
    ELSE IF b = <<>> THEN FALSE
    ELSE IF Head(a) # Head(b) THEN codeUnit(Head(a)) < codeUnit(Head(b))
    ELSE lexLess(Tail(a), Tail(b))

\* [...new Set(names)]: the first occurrence of each name, in order
RECURSIVE dedupe(_, _)
dedupe(names, seen) ==
    IF names = <<>> THEN <<>>
    ELSE IF Head(names) \in seen THEN dedupe(Tail(names), seen)
    ELSE <<Head(names)>> \o dedupe(Tail(names), seen \cup {Head(names)})

\* .sort()
RECURSIVE insertSorted(_, _)
insertSorted(x, sorted) ==
    IF sorted = <<>> THEN <<x>>
    ELSE IF lexLess(x, Head(sorted)) THEN <<x>> \o sorted
    ELSE <<Head(sorted)>> \o insertSorted(x, Tail(sorted))

RECURSIVE sort(_)
sort(names) == IF names = <<>> THEN <<>> ELSE insertSorted(Head(names), sort(Tail(names)))

\* names.join("|")
RECURSIVE join(_)
join(names) ==
    IF names = <<>> THEN <<>>
    ELSE IF Len(names) = 1 THEN Head(names)
    ELSE Head(names) \o <<"|">> \o join(Tail(names))

\* formatMatchBlock: the block's capture, node type and regex text
formatMatchBlock(capture, names, nodeType) ==
    [capture |-> capture, nodeType |-> nodeType,
     regex |-> <<"^", "(">> \o join(names) \o <<")", "$">>]

\* Variant of needsFlush: the number of names in the batch stands in for the
\* length of its text
needsFlushByCount(currentLen, name, maxRegexLen, batch) ==
    Len(batch) + Len(name) + 1 > maxRegexLen /\ Len(batch) > 0

\* line 205
needsFlush(currentLen, name, maxRegexLen, batch) ==
    currentLen + Len(name) + 1 > maxRegexLen /\ Len(batch) > 0

\* Variant of loopBody: the name that triggers a flush is not pushed
loopBodyElse(st, name, capture, nodeType, maxRegexLen) ==
    IF needsFlush(st.currentLen, name, maxRegexLen, st.batch)
      THEN [batch |-> <<>>, currentLen |-> 0,
            lines |-> Append(st.lines, formatMatchBlock(capture, st.batch, nodeType))]
      ELSE [batch |-> Append(st.batch, name),
            currentLen |-> st.currentLen + Len(name) + 1,
            lines |-> st.lines]

\* lines 203-212: one iteration of the loop over sorted
loopBody(st, name, capture, nodeType, maxRegexLen) ==
    LET flushed ==
          IF needsFlush(st.currentLen, name, maxRegexLen, st.batch)
            THEN [batch |-> <<>>, currentLen |-> 0,
                  lines |-> Append(st.lines,
                                   formatMatchBlock(capture, st.batch, nodeType))]
            ELSE st
    IN  [batch |-> Append(flushed.batch, name),
         currentLen |-> flushed.currentLen + Len(name) + 1,
         lines |-> flushed.lines]

\* lines 214-216: the last batch
finalFlush(st, capture, nodeType) ==
    IF Len(st.batch) > 0
      THEN Append(st.lines, formatMatchBlock(capture, st.batch, nodeType))
      ELSE st.lines

RECURSIVE batchLoop(_, _, _, _, _)
batchLoop(st, sorted, capture, nodeType, maxRegexLen) ==
    IF sorted = <<>> THEN st
    ELSE batchLoop(loopBody(st, Head(sorted), capture, nodeType, maxRegexLen),
                   Tail(sorted), capture, nodeType, maxRegexLen)

EmptyBatch == [batch |-> <<>>, currentLen |-> 0, lines |-> <<>>]

\* generateMatchBlocks: the blocks, in the order they are joined by "\n\n"
generateMatchBlocks(capture, names, nodeType, maxRegexLen) ==
    finalFlush(batchLoop(EmptyBatch, sort(dedupe(names, {})), capture, nodeType,
                         maxRegexLen),
               capture, nodeType)

\* The default of the parameter maxRegexLen
DefaultMaxRegexLen == 4000

\* Names the calls are made with
NameUniverse ==
    {<<"a">>, <<"B">>, <<"B", "a">>, <<"$", "a">>, <<"a", "B", "a">>, <<"B", "B">>}

InitBlocks ==
    /\ ScanIdle /\ TrieIdle /\ ExtractIdle /\ MainIdle
    /\ bnames \in SeqsUpTo(NameUniverse, MaxNames)
    /\ blimit \in 0..MaxLimit
    /\ brest = <<>>
    /\ bst = EmptyBatch
    /\ blocks = <<>>
    /\ bpc = "sort"

\* line 197
SortNames ==
    /\ bpc = "sort"
    /\ brest' = sort(dedupe(bnames, {}))
    /\ bpc' = "loop"
    /\ UNCHANGED <<bnames, blimit, bst, blocks>>
    /\ UNCHANGED nonBlockVars

\* lines 203-212; brest holds the names still to visit
LoopName ==
    /\ bpc = "loop" /\ brest # <<>>
    /\ bst' = loopBody(bst, Head(brest), "function.builtin", "symbol", blimit)
    /\ brest' = Tail(brest)
    /\ UNCHANGED <<bnames, blimit, blocks, bpc>>
    /\ UNCHANGED nonBlockVars

\* lines 214-218
FinalFlush ==
    /\ bpc = "loop" /\ brest = <<>>
    /\ blocks' = finalFlush(bst, "function.builtin", "symbol")
    /\ bpc' = "done"
    /\ UNCHANGED <<bnames, blimit, brest, bst>>
    /\ UNCHANGED nonBlockVars

NextBlocks ==
    \/ SortNames
    \/ LoopName
    \/ FinalFlush

SpecBlocks == InitBlocks /\ [][NextBlocks]_vars

(***************************************************************************)
(* generateMatchBlocks claims                                              *)
(***************************************************************************)
\* The alternation text of a block: its regex without `^(` and `)$`
Alternation(block) == SubSeq(block.regex, 3, Len(block.regex) - 2)
\* The names a block lists
BlockNames(block) == splitTopLevel(Alternation(block))
RECURSIVE AllBlockNames(_)
AllBlockNames(bs) ==
    IF bs = <<>> THEN <<>> ELSE BlockNames(Head(bs)) \o AllBlockNames(Tail(bs))

\* C4: the blocks partition the deduplicated names: read in emission order
\* they give the names in strictly increasing lexicographic order (so none
\* repeats, within a block or across blocks), none is omitted, none is foreign,
\* and no block is empty.
C4_BlocksPartition ==
    bpc = "done" =>
        LET all == AllBlockNames(blocks) IN
        /\ Range(all) = Range(bnames)
        /\ \A i \in 1..(Len(all) - 1) : lexLess(all[i], all[i + 1])
        /\ \A k \in 1..Len(blocks) : Alternation(blocks[k]) # <<>>

\* A list with a repeated name, out of order, that was split into blocks
C4_Witness ==
    /\ bpc = "done" /\ Len(blocks) >= 2
    /\ Cardinality(Range(bnames)) < Len(bnames)
    /\ \E i \in 1..(Len(bnames) - 1) : lexLess(bnames[i + 1], bnames[i])

\* C5 as stated: the alternation text of every block is at most maxRegexLen long
C5_BlockWithinLimit ==
    bpc = "done" =>
        \A k \in 1..Len(blocks) : Len(Alternation(blocks[k])) <= blimit

\* C5 as amended: the alternation text of every block is at most maxRegexLen
\* long, except a block made of a single name that is itself longer than
\* maxRegexLen.
C5_BlockWithinLimitOrSingle ==
    bpc = "done" =>
        \A k \in 1..Len(blocks) :
            \/ Len(Alternation(blocks[k])) <= blimit
            \/ /\ Len(BlockNames(blocks[k])) = 1
               /\ Len(BlockNames(blocks[k])[1]) > blimit

\* The limit split the names: a block of several names beside another block
C5_Witness ==
    /\ bpc = "done" /\ Len(blocks) >= 2
    /\ \E k \in 1..Len(blocks) :
          /\ Len(BlockNames(blocks[k])) >= 2
          /\ Len(Alternation(blocks[k])) = blimit - 1

(***************************************************************************)
(* generate-highlights.ts : main                                           *)
(***************************************************************************)
\* TextMate scope -> tree-sitter capture, in the order of Object.entries;
\* "null" is the capture of the scopes that are skipped
SCOPE_MAP ==
    << [scope |-> "support.function.builtin.wolfram", capture |-> "function.builtin"],
       [scope |-> "constant.language.wolfram", capture |-> "constant.builtin"],
       [scope |-> "support.function.experimental.wolfram", capture |-> "function.builtin"],
       [scope |-> "support.function.undocumented.wolfram", capture |-> "function"],
       [scope |-> "invalid.deprecated.wolfram", capture |-> "attribute"],
       [scope |-> "invalid.bad.wolfram", capture |-> "null"],
       [scope |-> "invalid.illegal.wolfram", capture |-> "null"],
       [scope |-> "invalid.illegal.system.wolfram", capture |-> "null"],
       [scope |-> "invalid.session.wolfram", capture |-> "variable.special"],
       [scope |-> "variable.function.wolfram", capture |-> "null"],
       [scope |-> "symbol.unrecognized.wolfram", capture |-> "null"] >>

\* scope.replace(".wolfram", "") on the scopes that get a section
scopeLabel(scope) ==
    CASE scope = "support.function.builtin.wolfram" -> "support.function.builtin"
      [] scope = "constant.language.wolfram" -> "constant.language"
      [] scope = "support.function.experimental.wolfram" -> "support.function.experimental"
      [] scope = "support.function.undocumented.wolfram" -> "support.function.undocumented"
      [] scope = "invalid.deprecated.wolfram" -> "invalid.deprecated"
      [] scope = "invalid.session.wolfram" -> "invalid.session"

\* Reading a property that only a mapping carries: a TypeError on undefined
\* and null, undefined on any other value that is not a mapping
member(tag, inner) ==
    IF tag \in {"undefined", "null"} THEN "throw"
    ELSE IF tag = "object" THEN inner
    ELSE "undefined"

\* The same read through ?. : undefined on undefined and null
optMember(tag, inner) ==
    IF tag \in {"undefined", "null"} THEN "undefined"
    ELSE IF tag = "object" THEN inner
    ELSE "undefined"

\* line 236: grammar.repository
getRepository(grammar) == member(grammar.top, grammar.repository)

\* Variant of getSymbols: the read of symbols is optional too
getSymbolsOptional(r, grammar) == optMember(r, grammar.symbols)

\* line 236: .symbols
getSymbols(r, grammar) == member(r, grammar.symbols)

\* line 236: ?.patterns
getPatterns(sy, grammar) == optMember(sy, grammar.patterns)

\* symbolsByScope: a Map, its entries in insertion order
has(m, scope) == \E i \in 1..Len(m) : m[i].scope = scope
get(m, scope) == m[CHOOSE i \in 1..Len(m) : m[i].scope = scope].names
\* lines 244-247
pushNames(m, scope, names) ==
    IF has(m, scope)
      THEN [i \in 1..Len(m) |->
              IF m[i].scope = scope THEN [m[i] EXCEPT !.names = @ \o names] ELSE m[i]]
      ELSE Append(m, [scope |-> scope, names |-> names])

\* A section of the highlight document
Fixed(kind) == [kind |-> kind, label |-> kind, blocks |-> <<>>]

\* lines 260-275
PreambleSections ==
    <<Fixed("header"), Fixed("comments"), Fixed("strings"), Fixed("numbers")>>
\* lines 277-279
GenericSection == Fixed("generic")
\* lines 281-288
CallAndDollarSections == <<Fixed("callhead"), Fixed("dollar")>>
\* lines 302-389
OperatorKinds ==
    <<"assignment", "rule", "comparison", "logical", "arithmetic", "application",
      "other", "delimiters", "separators">>
OperatorSections == [i \in 1..Len(OperatorKinds) |-> Fixed(OperatorKinds[i])]

\* lines 291-300, from entry i of SCOPE_MAP on
RECURSIVE scopeSections(_, _)
scopeSections(i, byScope) ==
    IF i > Len(SCOPE_MAP) THEN <<>>
    ELSE LET scope == SCOPE_MAP[i].scope
             capture == SCOPE_MAP[i].capture
             skip == \/ capture = "null"
                     \/ ~has(byScope, scope)
                     \/ get(byScope, scope) = <<>>
         IN  (IF skip THEN <<>>
              ELSE << [kind |-> "scope", label |-> scopeLabel(scope),
                       blocks |-> generateMatchBlocks(capture,
                                      get(byScope, scope), "symbol",
                                      DefaultMaxRegexLen)] >>)
             \o scopeSections(i + 1, byScope)

\* Variant of buildSections: the generic rule is pushed after the scope blocks
buildSectionsGenericLate(byScope) ==
    PreambleSections \o CallAndDollarSections
        \o scopeSections(1, byScope) \o <<GenericSection>> \o OperatorSections

\* lines 258-389: the sections array, in the order it is joined
buildSections(byScope) ==
    PreambleSections \o <<GenericSection>> \o CallAndDollarSections
        \o scopeSections(1, byScope) \o OperatorSections

\* The grammar documents main is run on.  A document is described by whether
\* the file can be read and parsed and, down the path main follows, by the
\* kind of value found at each level.
Document(file, top, repository, symbols, patterns, entries) ==
    [file |-> file, top |-> top, repository |-> repository, symbols |-> symbols,
     patterns |-> patterns, entries |-> entries]

\* An element of the patterns list
Entry(kind, matchTag, match, name) ==
    [kind |-> kind, matchTag |-> matchTag, match |-> match, name |-> name]

MainScopes ==
    {"support.function.builtin.wolfram", "constant.language.wolfram",
     "invalid.bad.wolfram", "source.unmapped.wolfram"}

MainMatches ==
    { PrefixText("plain") \o <<"(", "?", ":", "A", "|", "b", ")">> \o LookaheadText,
      <<"B">>,
      <<"1">> }

EntryUniverse ==
    {Entry("null", "undefined", <<>>, "undefined"),
     Entry("number", "undefined", <<>>, "undefined"),
     Entry("string", "undefined", <<>>, "undefined"),
     Entry("object", "undefined", <<>>, "constant.language.wolfram"),
     Entry("object", "string", <<"B">>, "undefined"),
     Entry("object", "string", <<>>, "constant.language.wolfram"),
     Entry("object", "number", <<>>, "constant.language.wolfram")}
    \cup {Entry("object", "string", m, sc) : m \in MainMatches, sc \in MainScopes}

Scalars == {"number", "string", "array"}

Documents ==
    {Document(f, "undefined", "undefined", "undefined", "undefined", <<>>) :
        f \in {"absent", "invalid"}}
    \cup {Document("valid", t, "undefined", "undefined", "undefined", <<>>) :
            t \in {"null"} \cup Scalars}
    \cup {Document("valid", "object", r, "undefined", "undefined", <<>>) :
            r \in {"undefined", "null"} \cup Scalars}
    \cup {Document("valid", "object", "object", sy, "undefined", <<>>) :
            sy \in {"undefined", "null"} \cup Scalars}
    \cup {Document("valid", "object", "object", "object", p, <<>>) :
            p \in {"undefined", "null", "number", "object"}}
    \cup {Document("valid", "object", "object", "object", "string", es) :
            es \in SeqsUpTo({Entry("string", "undefined", <<>>, "undefined")}, MaxEntries)}
    \cup {Document("valid", "object", "object", "object", "array", es) :
            es \in SeqsUpTo(EntryUniverse, MaxEntries)}

NoFile(state) == [state |-> state, sections |-> <<>>]

InitMain ==
    /\ ScanIdle /\ TrieIdle /\ ExtractIdle /\ BlocksIdle
    /\ doc \in Documents
    /\ \E st \in {"absent", "old"} : hfile = NoFile(st) /\ bfile = NoFile(st)
    /\ symbolPatterns = [tag |-> "undefined", items |-> <<>>]
    /\ symbolsByScope = <<>>
    /\ mpc = "read"

\* line 232: readFileSync throws on a missing file, JSON.parse on invalid text
ReadGrammar ==
    /\ mpc = "read"
    /\ mpc' = IF doc.file \in {"absent", "invalid"} THEN "failed" ELSE "patterns"
    /\ UNCHANGED <<doc, hfile, bfile, symbolPatterns, symbolsByScope>>
    /\ UNCHANGED nonMainVars

\* lines 235-236
GetSymbolPatterns ==
    /\ mpc = "patterns"
    /\ LET r == getRepository(doc)
           sy == IF r = "throw" THEN "throw" ELSE getSymbols(r, doc)
           p == IF sy = "throw" THEN "throw" ELSE getPatterns(sy, doc)
       IN  IF p = "throw"
             THEN /\ mpc' = "failed"
                  /\ UNCHANGED symbolPatterns
             ELSE /\ mpc' = "loop"
                  /\ symbolPatterns' =
                        IF p \in {"undefined", "null"}
                          THEN [tag |-> "array", items |-> <<>>]
                          ELSE [tag |-> p, items |-> doc.entries]
    /\ UNCHANGED <<doc, hfile, bfile, symbolsByScope>>
    /\ UNCHANGED nonMainVars

\* What for..of can iterate
Iterable(tag) == tag \in {"array", "string"}

\* lines 238-248: one turn of the loop; symbolPatterns.items holds the
\* elements still to visit
LoopPattern ==
    /\ mpc = "loop"
    /\ \/ ~Iterable(symbolPatterns.tag)
       \/ symbolPatterns.items # <<>>
    /\ IF ~Iterable(symbolPatterns.tag)
         THEN /\ mpc' = "failed"
              /\ UNCHANGED <<symbolPatterns, symbolsByScope>>
         ELSE LET e == Head(symbolPatterns.items)
                  \* line 239: pattern.match, pattern.name
                  m == IF e.kind = "string" THEN "function"
                       ELSE member(e.kind, e.matchTag)
                  falsyMatch == \/ m = "undefined"
                                \/ m = "string" /\ e.match = <<>>
                  falsyName == e.kind # "object" \/ e.name = "undefined"
                  names == extractSymbolNames(e.match)
              IN  IF m = "throw"
                    THEN /\ mpc' = "failed"
                         /\ UNCHANGED <<symbolPatterns, symbolsByScope>>
                  ELSE IF falsyMatch \/ falsyName
                    THEN /\ symbolPatterns' = [symbolPatterns EXCEPT !.items = Tail(@)]
                         /\ UNCHANGED <<symbolsByScope, mpc>>
                  \* line 155: replace is not a function of a number
                  ELSE IF m = "number"
                    THEN /\ mpc' = "failed"
                         /\ UNCHANGED <<symbolPatterns, symbolsByScope>>
                  ELSE /\ symbolPatterns' = [symbolPatterns EXCEPT !.items = Tail(@)]
                       /\ symbolsByScope' =
                             IF names = <<>> THEN symbolsByScope
                             ELSE pushNames(symbolsByScope, e.name, names)
                       /\ UNCHANGED mpc
    /\ UNCHANGED <<doc, hfile, bfile>>
    /\ UNCHANGED nonMainVars

\* lines 257-393
WriteHighlights ==
    /\ mpc = "loop"
    /\ Iterable(symbolPatterns.tag) /\ symbolPatterns.items = <<>>
    /\ hfile' = [state |-> "written", sections |-> buildSections(symbolsByScope)]
    /\ mpc' = "brackets"
    /\ UNCHANGED <<doc, bfile, symbolPatterns, symbolsByScope>>
    /\ UNCHANGED nonMainVars

\* lines 395-403
WriteBrackets ==
    /\ mpc = "brackets"
    /\ bfile' = [state |-> "written", sections |-> <<Fixed("brackets")>>]
    /\ mpc' = "done"
    /\ UNCHANGED <<doc, hfile, symbolPatterns, symbolsByScope>>
    /\ UNCHANGED nonMainVars

NextMain ==
    \/ ReadGrammar
    \/ GetSymbolPatterns
    \/ LoopPattern
    \/ WriteHighlights
    \/ WriteBrackets

SpecMain == InitMain /\ [][NextMain]_vars

(***************************************************************************)
(* main claims                                                             *)
(***************************************************************************)
Unwritten == hfile.state # "written" /\ bfile.state # "written"

\* The document is absent or is not valid structured data
Unreadable == doc.file \in {"absent", "invalid"}
\* The document has no repository mapping
NoRepositoryMapping ==
    doc.file = "valid" /\ (doc.top # "object" \/ doc.repository # "object")
\* The document has no symbols category with a patterns list
NoSymbolsPatterns ==
    /\ doc.file = "valid" /\ doc.top = "object" /\ doc.repository = "object"
    /\ doc.symbols # "object" \/ doc.patterns # "array"

\* C6 as stated: on a document that is absent, not valid structured data, or
\* without a repository mapping or a symbols category with a patterns list,
\* the run never gets to a write: both files stay as they were and the run
\* can only end failed.
C6_FailsBeforeWrites ==
    (Unreadable \/ NoRepositoryMapping \/ NoSymbolsPatterns) =>
        Unwritten /\ mpc \in {"read", "patterns", "loop", "failed"}

\* The document has no repository member at all (or a null one, or is null)
NoRepositoryMember ==
    /\ doc.file = "valid"
    /\ doc.top # "object" \/ doc.repository \in {"undefined", "null"}
\* The repository is there but has no symbols category, or the category has
\* no patterns list
SymbolsOrPatternsMissing ==
    /\ doc.file = "valid" /\ doc.top = "object" /\ doc.repository = "object"
    /\ \/ doc.symbols \in {"undefined", "null"}
       \/ doc.symbols = "object" /\ doc.patterns \in {"undefined", "null"}

\* C6 as amended: on a document that is absent, not valid structured data, or
\* without a repository member, the run never gets to a write and can only end
\* failed; on a document whose repository lacks the symbols category, or whose
\* symbols category lacks the patterns list, the run does not fail and what it
\* writes has no scope-specific block.
C6_FatalOrTolerated ==
    /\ (Unreadable \/ NoRepositoryMember) =>
          Unwritten /\ mpc \in {"read", "patterns", "failed"}
    /\ SymbolsOrPatternsMissing =>
          /\ mpc # "failed"
          /\ \A i \in 1..Len(hfile.sections) : hfile.sections[i].kind # "scope"
          /\ mpc = "done" => hfile.state = "written" /\ bfile.state = "written"

\* A run on a parsed mapping without repository has failed, the files that
\* were there untouched
C6_Witness ==
    /\ mpc = "failed" /\ doc.file = "valid" /\ doc.top = "object"
    /\ doc.repository = "undefined"
    /\ hfile = NoFile("old") /\ bfile = NoFile("old")

\* Positions of the sections of a kind
Positions(sections, kinds) == {i \in 1..Len(sections) : sections[i].kind \in kinds}

\* C7: in the highlight document written, the generic rule is there, once,
\* before the call-head rule, the $ rule and every scope block, and every scope
\* block is before every operator and punctuation section.
C7_GenericFirst ==
    hfile.state = "written" =>
        LET generic == Positions(hfile.sections, {"generic"})
            specific == Positions(hfile.sections, {"callhead", "dollar", "scope"})
            scopes == Positions(hfile.sections, {"scope"})
            operators == Positions(hfile.sections, Range(OperatorKinds))
        IN  /\ Cardinality(generic) = 1
            /\ Positions(hfile.sections, {"callhead"}) # {}
            /\ Positions(hfile.sections, {"dollar"}) # {}
            /\ operators # {}
            /\ \A g \in generic : \A k \in specific : g < k
            /\ \A k \in scopes : \A o \in operators : k < o

\* A document written with two scope blocks, from names met in the other order
C7_Witness ==
    /\ mpc = "done" /\ hfile.state = "written"
    /\ Cardinality(Positions(hfile.sections, {"scope"})) = 2
    /\ Len(symbolsByScope) >= 2
    /\ symbolsByScope[1].scope = "constant.language.wolfram"

====
